---- MODULE Spec2Model ----
(***************************************************************************)
(* The real-time relay of pm2-gui's backend:                               *)
(*   PM2Client        (pm2/client.ts)      - the daemon connection         *)
(*   PM2API.list      (pm2/api.ts)         - the daemon list call          *)
(*   PM2EventBus      (pm2/events.ts)      - bus handlers, log buffer, poll*)
(*   WebSocketManager (websocket/server.ts)- sessions, fan-out, heartbeat  *)
(* and the browser side that consumes it:                                  *)
(*   useWebSocket     (hooks/useWebSocket) - the socket and its retries    *)
(*   useProcessStore, useLogStore          - the process list and log list *)
(* Each action is one JavaScript task: a handler or callback run to        *)
(* completion, with the promise continuations it resumes.                  *)
(***************************************************************************)
EXTENDS Integers, Sequences, FiniteSets, TLC

\* ---- bounds -------------------------------------------------------------
MaxLogs == 3         \* log items the daemon bus delivers in one run
MaxLists == 2        \* pm2API.list() calls in flight at one time
MaxInit == 2         \* PM2EventBus.initialize() calls in one run
MaxReconnects == 1   \* pm2Client.reconnect() calls asleep at one time
maxBufferSize == 2   \* PM2EventBus.maxBufferSize (10000 in the source), scaled
maxReconnectAttempts == 10   \* PM2Client.maxReconnectAttempts
reconnectDelay == 1000       \* PM2Client.reconnectDelay (ms)
maxReconnectDelay == 30000   \* PM2Client.maxReconnectDelay (ms)
MaxLimit == 3        \* largest limit passed to getRecentLogs
MaxSockets == 3      \* WebSocket objects the useWebSocket hook creates in one run
hookMaxReconnectAttempts == 2   \* useWebSocket option maxReconnectAttempts (default 10), scaled
maxLogs == 2         \* useLogStore maxLogs (10000 in the source), scaled
MaxEntries == 4      \* log entries the browser receives in one run
MaxChanges == 2      \* changes of the daemon's process table in one run

Sessions == {1, 2}   \* the WebSocket objects that exist at one time
ALL == -1            \* the subscription key 'all'
UNDEFINED == -2      \* a processId that is undefined or no process id at all
NULL == -3           \* null (selectedProcessId)
Pids == {5, 7}       \* pm_id values the daemon reports
SubIds == {ALL, 7}   \* processId values of SUBSCRIBE_LOGS / UNSUBSCRIBE_LOGS
Events == {"exit", "online"}

VARIABLES
    \* WebSocketManager
    wss,                \* this.wss # null
    heartbeatInterval,  \* this.heartbeatInterval # null
    clients,            \* this.clients, a Set in insertion order
    readyState,         \* ws.readyState of each socket object
    isAlive,            \* ws.isAlive
    subscriptions,      \* ws.subscriptions
    \* PM2Client
    connected, connecting, reconnectAttempts,
    attempts,           \* pm2.connect() calls awaiting their callback: who awaits each
    reconnectTimers,    \* reconnect() calls sleeping in their setTimeout
    \* PM2EventBus
    bus,                \* this.bus # null
    listeners,          \* bus objects carrying the handlers of setup*Handlers
    metricsInterval,    \* this.metricsInterval # null
    intervals,          \* setInterval timers that run
    logBuffer,
    lists,              \* broadcastProcessList() calls awaiting pm2API.list()
    initPc,             \* where the initialize() call in flight is
    \* history
    nextId,             \* log items ingested so far + 1 (stands for uuidv4())
    ingested,           \* the entries ingested since the buffer was last emptied
    inits,              \* initialize() calls made
    missed,             \* heartbeat ticks each session saw since its last pong
    lastStatus,         \* pm2Connected of the last CONNECTION_STATUS sent to a session
    step,               \* the task that ran last and the fan-out it made
    \* useWebSocket (browser)
    mounted,            \* "no", "yes", "gone": the component using the hook
    wsRef,              \* wsRef.current: 0 is null, else a socket of the hook
    sockets,            \* readyState of each WebSocket the hook creates
    reconnectAttemptsRef,
    reconnectTimeoutRef,\* reconnectTimeoutRef.current: 0 is null, else a timer id
    timeouts,           \* window.setTimeout(connect, delay) timers that are pending
    hookConnected, hookConnecting,   \* the hook's connected / connecting state
    terminal,           \* disconnect() was called and connect() not called since
    hstep,              \* the hook task that ran last
    \* useProcessStore, useLogStore (browser)
    processStore,       \* processes, selectedProcessId, isLoading, error
    logStore,           \* logs, isPaused
    arrivals,           \* history: every entry handed to addLog / addLogs, whether the
                        \* store was paused then, and whether clearLogs ran since
    sstep,              \* the store task that ran last
    \* the PM2 daemon, as far as its list answers go (history)
    daemonState,        \* how many times the daemon's process table has changed
    reads,              \* for each call of lists: the table state its answer holds
    shown               \* the table state of the last snapshot broadcast

hubVars == <<wss, heartbeatInterval, clients, readyState, isAlive, subscriptions>>
clientVars == <<connected, connecting, reconnectAttempts, attempts, reconnectTimers>>
busVars == <<bus, listeners, metricsInterval, intervals, logBuffer, lists, initPc>>
histVars == <<nextId, ingested, inits, missed, lastStatus>>
serverVars == <<hubVars, clientVars, busVars, histVars, step>>
hookVars == <<mounted, wsRef, sockets, reconnectAttemptsRef, reconnectTimeoutRef, timeouts,
              hookConnected, hookConnecting, terminal, hstep>>
storeVars == <<processStore, logStore, arrivals, sstep>>
browserVars == <<hookVars, storeVars>>
daemonVars == <<daemonState, reads, shown>>
outsideVars == <<browserVars, daemonVars>>
vars == <<serverVars, browserVars, daemonVars>>

\* ---- helpers ------------------------------------------------------------
Range(s) == {s[i] : i \in 1..Len(s)}
Without(s, x) == SelectSeq(s, LAMBDA y : y # x)
RemoveAt(s, i) == SubSeq(s, 1, i - 1) \o SubSeq(s, i + 1, Len(s))
Min(a, b) == IF a < b THEN a ELSE b

\* WSMessage, one shape for every type
Msg(type, pid, ev, id, up) ==
    [type |-> type, processId |-> pid, event |-> ev, id |-> id, pm2Connected |-> up]
NoMsg == Msg("NONE", 0, "", 0, FALSE)
NoFan == [msg |-> NoMsg, called |-> {}, failed |-> {}, threw |-> FALSE]
\* The task that ran last: its name, the bus packet it handled (if any) and its
\* fan-out (if any).
NoArg == [pm_id |-> 0, event |-> ""]
StepArg(op, arg, fan) == [op |-> op, arg |-> arg, fan |-> fan]
Step(op, fan) == StepArg(op, NoArg, fan)

\* ---- WebSocketManager ----------------------------------------------------
\* sendToClient without its try/catch: the exception of ws.send leaves it.
sendToClient_NoCatch(rs, ws, F) ==
    IF rs = "OPEN"
    THEN IF ws \in F THEN "threw" ELSE "sent"
    ELSE "skipped"

\* sendToClient on a socket whose readyState is rs: "skipped" (not OPEN), "sent",
\* or "failed" (ws.send threw and the catch logged it). F is the set of sockets
\* whose ws.send throws in this task.
sendToClient(rs, ws, F) ==
    IF rs = "OPEN"
    THEN IF ws \in F THEN "failed" ELSE "sent"
    ELSE "skipped"

\* this.clients.forEach(client => { if (client \in M) sendToClient(client) })
\* A result "threw" is an exception leaving the callback: forEach stops there.
RECURSIVE forEachSend(_, _, _)
forEachSend(cs, M, F) ==
    IF cs = <<>> THEN [called |-> {}, failed |-> {}, threw |-> FALSE]
    ELSE LET ws == Head(cs)
             r == IF ws \in M THEN sendToClient(readyState[ws], ws, F) ELSE "skipped"
         IN  IF r = "threw"
             THEN [called |-> {ws}, failed |-> {ws}, threw |-> TRUE]
             ELSE LET rest == forEachSend(Tail(cs), M, F)
                  IN  [called |-> (IF r = "skipped" THEN {} ELSE {ws}) \cup rest.called,
                       failed |-> (IF r = "failed" THEN {ws} ELSE {}) \cup rest.failed,
                       threw |-> rest.threw]

Fan(msg, r) == [msg |-> msg, called |-> r.called, failed |-> r.failed, threw |-> r.threw]

broadcast(msg, F) == Fan(msg, forEachSend(clients, Range(clients), F))

\* broadcastToSubscribers without the subscription test.
broadcastToSubscribers_Unfiltered(processId, msg, F) == broadcast(msg, F)

broadcastToSubscribers(processId, msg, F) ==
    Fan(msg, forEachSend(clients,
                         {c \in Range(clients) :
                             ALL \in subscriptions[c] \/ processId \in subscriptions[c]},
                         F))

\* Messages handed to broadcast() in the hub's own specification.
ApiMsgs == {Msg("PROCESS_LIST_UPDATE", 0, "", 0, FALSE), Msg("PROCESS_EVENT", 7, "exit", 0, FALSE)}

\* The sockets whose ws.send throws during one task: none, or one.
FailSets == {{}} \cup {{ws} : ws \in Sessions}

OpenClients == {c \in Range(clients) : readyState[c] = "OPEN"}

\* wsManager.initialize(server)
HubInitialize ==
    /\ ~wss
    /\ wss' = TRUE
    /\ heartbeatInterval' = TRUE
    /\ step' = Step("HubInitialize", NoFan)
    /\ UNCHANGED <<clients, readyState, isAlive, subscriptions, clientVars, busVars, histVars>>

\* One send to one socket, as the fan-out record of the task.
sendOne(msg, rs, ws, F) ==
    LET r == sendToClient(rs, ws, F)
    IN  [msg |-> msg,
         called |-> IF r = "skipped" THEN {} ELSE {ws},
         failed |-> IF r = "failed" THEN {ws} ELSE {},
         threw |-> r = "threw"]

\* handleConnection that registers the session and sends no status message.
handleConnection_NoStatus(ws, F) ==
    /\ wss
    /\ readyState[ws] = "NONE"
    /\ F \subseteq {ws}
    /\ step' = Step("handleConnection", NoFan)
    /\ lastStatus' = [lastStatus EXCEPT ![ws] = "none"]
    /\ readyState' = [readyState EXCEPT ![ws] = "OPEN"]
    /\ isAlive' = [isAlive EXCEPT ![ws] = TRUE]
    /\ subscriptions' = [subscriptions EXCEPT ![ws] = {ALL}]
    /\ clients' = Append(Without(clients, ws), ws)
    /\ missed' = [missed EXCEPT ![ws] = 0]
    /\ UNCHANGED <<wss, heartbeatInterval, clientVars, busVars, nextId, ingested, inits>>

\* handleConnection that leaves the new session's liveness unconfirmed.
handleConnection_NotAlive(ws, F) ==
    /\ wss
    /\ readyState[ws] = "NONE"
    /\ F \subseteq {ws}
    /\   LET fan == sendOne(Msg("CONNECTION_STATUS", 0, "", 0, TRUE), "OPEN", ws, F)
         IN  /\ step' = Step("handleConnection", fan)
             /\ lastStatus' = [lastStatus EXCEPT ![ws] =
                                  IF ws \in fan.called \ fan.failed
                                  THEN (IF fan.msg.pm2Connected THEN "true" ELSE "false")
                                  ELSE "none"]
    /\ readyState' = [readyState EXCEPT ![ws] = "OPEN"]
    /\ isAlive' = [isAlive EXCEPT ![ws] = FALSE]
    /\ subscriptions' = [subscriptions EXCEPT ![ws] = {ALL}]
    /\ clients' = Append(Without(clients, ws), ws)
    /\ missed' = [missed EXCEPT ![ws] = 0]
    /\ UNCHANGED <<wss, heartbeatInterval, clientVars, busVars, nextId, ingested, inits>>

\* wss 'connection' -> handleConnection(ws), ws a new socket object (OPEN)
handleConnection(ws, F) ==
    /\ wss
    /\ readyState[ws] = "NONE"
    /\ F \subseteq {ws}
    /\   LET fan == sendOne(Msg("CONNECTION_STATUS", 0, "", 0, TRUE), "OPEN", ws, F)
         IN  /\ step' = Step("handleConnection", fan)
             /\ lastStatus' = [lastStatus EXCEPT ![ws] =
                                  IF ws \in fan.called \ fan.failed
                                  THEN (IF fan.msg.pm2Connected THEN "true" ELSE "false")
                                  ELSE "none"]
    /\ readyState' = [readyState EXCEPT ![ws] = "OPEN"]
    /\ isAlive' = [isAlive EXCEPT ![ws] = TRUE]
    /\ subscriptions' = [subscriptions EXCEPT ![ws] = {ALL}]
    /\ clients' = Append(Without(clients, ws), ws)
    /\ missed' = [missed EXCEPT ![ws] = 0]
    /\ UNCHANGED <<wss, heartbeatInterval, clientVars, busVars, nextId, ingested, inits>>

\* ws 'pong'
Pong(ws) ==
    /\ readyState[ws] = "OPEN"
    /\ isAlive' = [isAlive EXCEPT ![ws] = TRUE]
    /\ missed' = [missed EXCEPT ![ws] = 0]
    /\ step' = Step("Pong", NoFan)
    /\ UNCHANGED <<wss, heartbeatInterval, clients, readyState, subscriptions, clientVars,
                   busVars, nextId, ingested, inits, lastStatus>>

\* Inbound frames: text that is not JSON, an envelope of another type, and the
\* two subscription messages.
ClientMsgs ==
    {[kind |-> k, processId |-> 0, data |-> TRUE] : k \in {"badjson", "unknown"}}
    \cup {[kind |-> k, processId |-> p, data |-> TRUE] :
              k \in {"SUBSCRIBE_LOGS", "UNSUBSCRIBE_LOGS"}, p \in SubIds}

\* More inbound frames: the JSON text null; JSON that is no envelope ({} or a
\* number: message.type is undefined); a subscription message whose data holds
\* no valid processId; a subscription message with no data at all.
MalformedMsgs ==
    {[kind |-> k, processId |-> 0, data |-> TRUE] : k \in {"null", "notEnvelope"}}
    \cup {[kind |-> k, processId |-> UNDEFINED, data |-> d] :
              k \in {"SUBSCRIBE_LOGS", "UNSUBSCRIBE_LOGS"}, d \in BOOLEAN}

\* handleMessage: the try block throws (JSON.parse fails, message is null, or
\* message.data is destructured while undefined)
parseThrows(m) ==
    \/ m.kind \in {"badjson", "null"}
    \/ m.kind \in {"SUBSCRIBE_LOGS", "UNSUBSCRIBE_LOGS"} /\ ~m.data

\* ws 'message' -> handleMessage(ws, data)
handleMessage(ws, m, F) ==
    /\ readyState[ws] = "OPEN"
    /\ F \subseteq (IF parseThrows(m) THEN {ws} ELSE {})
    /\ subscriptions' = [subscriptions EXCEPT ![ws] =
          CASE parseThrows(m) -> @
            [] m.kind = "SUBSCRIBE_LOGS" -> @ \cup {m.processId}
            [] m.kind = "UNSUBSCRIBE_LOGS" -> @ \ {m.processId}
            [] OTHER -> @]
    /\ IF parseThrows(m)
       THEN step' = StepArg("handleMessage", [ws |-> ws, m |-> m],
                            sendOne(Msg("ERROR", 0, "", 0, FALSE), readyState[ws], ws, F))
       ELSE step' = StepArg("handleMessage", [ws |-> ws, m |-> m], NoFan)
    /\ UNCHANGED <<wss, heartbeatInterval, clients, readyState, isAlive, clientVars, busVars,
                   histVars>>

\* The peer or the network ends the connection: readyState leaves OPEN before
\* the 'close' event is emitted.
PeerClose(ws) ==
    /\ readyState[ws] = "OPEN"
    /\ readyState' = [readyState EXCEPT ![ws] = "CLOSING"]
    /\ step' = Step("PeerClose", NoFan)
    /\ UNCHANGED <<wss, heartbeatInterval, clients, isAlive, subscriptions, clientVars,
                   busVars, histVars>>

\* ws 'close': this.clients.delete(ws); the socket object is then garbage.
CloseEvent(ws) ==
    /\ readyState[ws] = "CLOSING"
    /\ clients' = Without(clients, ws)
    /\ readyState' = [readyState EXCEPT ![ws] = "NONE"]
    /\ isAlive' = [isAlive EXCEPT ![ws] = FALSE]
    /\ subscriptions' = [subscriptions EXCEPT ![ws] = {}]
    /\ missed' = [missed EXCEPT ![ws] = 0]
    /\ lastStatus' = [lastStatus EXCEPT ![ws] = "none"]
    /\ step' = Step("CloseEvent", NoFan)
    /\ UNCHANGED <<wss, heartbeatInterval, clientVars, busVars, nextId, ingested, inits>>

\* ws 'error': this.clients.delete(ws); ws closes the socket after the event.
ErrorEvent(ws) ==
    /\ readyState[ws] = "OPEN"
    /\ clients' = Without(clients, ws)
    /\ readyState' = [readyState EXCEPT ![ws] = "CLOSING"]
    /\ step' = Step("ErrorEvent", NoFan)
    /\ UNCHANGED <<wss, heartbeatInterval, isAlive, subscriptions, clientVars, busVars,
                   histVars>>

\* checkHeartbeat that terminates nobody.
unresponsive_None == {}

\* checkHeartbeat: the sessions the loop terminates and deletes
unresponsive == {ws \in Range(clients) : ~isAlive[ws]}

\* setInterval(() => this.checkHeartbeat(), 30000)
checkHeartbeat ==
    /\ heartbeatInterval
    /\ clients' = SelectSeq(clients, LAMBDA ws : ws \notin unresponsive)
    /\ readyState' = [ws \in Sessions |->
                         IF ws \in unresponsive THEN "CLOSING" ELSE readyState[ws]]
    /\ isAlive' = [ws \in Sessions |->
                      IF ws \in Range(clients) \ unresponsive THEN FALSE ELSE isAlive[ws]]
    /\ missed' = [ws \in Sessions |->
                     IF ws \in Range(clients) THEN Min(missed[ws] + 1, 2) ELSE missed[ws]]
    /\ step' = Step("checkHeartbeat", NoFan)
    /\ UNCHANGED <<wss, heartbeatInterval, subscriptions, clientVars, busVars,
                   nextId, ingested, inits, lastStatus>>

\* wsManager.shutdown()
shutdown ==
    /\ wss
    /\ heartbeatInterval' = FALSE
    /\ readyState' = [ws \in Sessions |->
                         IF ws \in Range(clients) /\ readyState[ws] = "OPEN"
                         THEN "CLOSING" ELSE readyState[ws]]
    /\ clients' = <<>>
    /\ wss' = FALSE
    /\ step' = Step("shutdown", NoFan)
    /\ UNCHANGED <<isAlive, subscriptions, clientVars, busVars, histVars>>

\* ---- PM2Client ----------------------------------------------------------
\* connect() without the test of the connecting flag.
connect_NoInProgress ==
    IF connected THEN "already" ELSE "started"

\* connect(): "already" and "inprogress" return a resolved promise at once;
\* "started" sets connecting, calls pm2.connect and stays pending until its callback.
connect ==
    IF connected THEN "already"
    ELSE IF connecting THEN "inprogress"
    ELSE "started"

\* ensureConnected(): "ready" when connected, else whatever connect() does.
ensureConnected == IF ~connected THEN connect ELSE "ready"

\* The PM2Client fields after a connect() call by `who`.
AfterConnect(who) ==
    IF connect = "started"
    THEN /\ connecting' = TRUE
         /\ attempts' = Append(attempts, who)
         /\ UNCHANGED <<connected, reconnectAttempts, reconnectTimers>>
    ELSE UNCHANGED clientVars

\* The PM2Client fields after an ensureConnected() call by `who`.
AfterEnsure(who) ==
    IF ensureConnected = "ready" THEN UNCHANGED clientVars ELSE AfterConnect(who)

\* pm2Client.connect() called from outside (startServer)
Connect ==
    /\ connect = "started"
    /\ AfterConnect("api")
    /\ step' = Step("connect", NoFan)
    /\ UNCHANGED <<hubVars, busVars, histVars>>

\* pm2Client.disconnect()
disconnect ==
    /\ connected
    /\ connected' = FALSE
    /\ step' = Step("disconnect", NoFan)
    /\ UNCHANGED <<connecting, reconnectAttempts, attempts, reconnectTimers, hubVars,
                   busVars, histVars>>

\* ---- PM2API.list / PM2EventBus.broadcastProcessList ------------------------
\* A call in flight: who started it, whether it awaits the connect attempt it
\* started ("connect") or the pm2.list callback ("list"), and whether the
\* supervisor was connected when ensureConnected() returned to it.
ListCall(origin, stage, conn) == [origin |-> origin, stage |-> stage, conn |-> conn]

\* broadcastProcessList() that does nothing while a call of the same origin is
\* in flight.
StartList_Debounced(origin) ==
    IF \E i \in 1..Len(lists) : lists[i].origin = origin
    THEN UNCHANGED <<lists, clientVars>>
    ELSE /\ Len(lists) < MaxLists
         /\ lists' = Append(lists, [origin |-> origin, stage |-> "list", conn |-> connected])
         /\ UNCHANGED clientVars

\* broadcastProcessList() up to its first suspension
StartList(origin) ==
    /\ Len(lists) < MaxLists
    /\ lists' = Append(lists,
                       IF ensureConnected = "started"
                       THEN ListCall(origin, "connect", FALSE)
                       ELSE ListCall(origin, "list", connected))
    /\ AfterEnsure("list")

\* pm2.connect callback, with the continuation of the call that awaits it
ConnectCallback(i, ok) ==
    /\ i \in 1..Len(attempts)
    /\ attempts' = RemoveAt(attempts, i)
    /\ connecting' = FALSE
    /\ connected' = IF ok THEN TRUE ELSE connected
    /\ reconnectAttempts' = IF ok THEN 0 ELSE reconnectAttempts
    /\ UNCHANGED reconnectTimers
    /\ lists' = IF attempts[i] = "list"
                THEN LET j == CHOOSE k \in 1..Len(lists) : lists[k].stage = "connect"
                     IN  IF ok THEN [lists EXCEPT ![j] = ListCall(@.origin, "list", connected')]
                         ELSE RemoveAt(lists, j)
                ELSE lists
    /\ initPc' = IF attempts[i] = "init" THEN (IF ok THEN "launch" ELSE "idle") ELSE initPc
    /\ step' = Step(IF ok THEN "connected" ELSE "connectFailed", NoFan)
    /\ UNCHANGED <<bus, listeners, metricsInterval, intervals, logBuffer, hubVars, histVars>>

\* broadcastProcessList without its try/catch: the rejection of pm2API.list
\* is unhandled and ends the process, and its timers with it.
ListCallback_Uncaught(i, ok, F) ==
    /\ i \in 1..Len(lists)
    /\ lists[i].stage = "list"
    /\ F \subseteq (IF ok THEN OpenClients ELSE {})
    /\ lists' = RemoveAt(lists, i)
    /\ IF ok
       THEN /\ step' = StepArg("listed", [origin |-> lists[i].origin],
                               broadcast(Msg("PROCESS_LIST_UPDATE", 0, "", 0, FALSE), F))
            /\ UNCHANGED <<metricsInterval, intervals>>
       ELSE /\ step' = StepArg("listFailed", [origin |-> lists[i].origin], NoFan)
            /\ metricsInterval' = FALSE
            /\ intervals' = 0
    /\ UNCHANGED <<bus, listeners, logBuffer, initPc, hubVars, clientVars, histVars>>

\* pm2.list callback in pm2API.list, then the rest of broadcastProcessList
ListCallback(i, ok, F) ==
    /\ i \in 1..Len(lists)
    /\ lists[i].stage = "list"
    /\ F \subseteq (IF ok THEN OpenClients ELSE {})
    /\ lists' = RemoveAt(lists, i)
    /\ IF ok
       THEN step' = StepArg("listed", [origin |-> lists[i].origin],
                            broadcast(Msg("PROCESS_LIST_UPDATE", 0, "", 0, FALSE), F))
       ELSE step' = StepArg("listFailed", [origin |-> lists[i].origin], NoFan)
    /\ UNCHANGED <<bus, listeners, metricsInterval, intervals, logBuffer, initPc, hubVars,
                   clientVars, histVars>>

\* ---- PM2EventBus ---------------------------------------------------------
\* initialize() up to its first suspension
initialize ==
    /\ initPc = "idle"
    /\ inits < MaxInit
    /\ inits' = inits + 1
    /\ initPc' = IF ensureConnected = "started" THEN "connect" ELSE "launch"
    /\ AfterEnsure("init")
    /\ step' = Step("initialize", NoFan)
    /\ UNCHANGED <<bus, listeners, metricsInterval, intervals, logBuffer, lists, hubVars,
                   nextId, ingested, missed, lastStatus>>

\* pm2.launchBus callback: setupLogHandlers, setupProcessEventHandlers,
\* startMetricsPolling
LaunchBusCallback(ok) ==
    /\ initPc = "launch"
    /\ initPc' = "idle"
    /\ IF ok
       THEN /\ bus' = TRUE
            /\ listeners' = listeners + 1
            /\ StartList("init")
            /\ intervals' = intervals + 1
            /\ metricsInterval' = TRUE
            /\ step' = Step("launched", NoFan)
       ELSE /\ step' = Step("launchFailed", NoFan)
            /\ UNCHANGED <<bus, listeners, metricsInterval, intervals, lists, clientVars>>
    /\ UNCHANGED <<logBuffer, hubVars, histVars>>

LogEntry(id, processId) == [id |-> id, processId |-> processId]

\* handleLog that shifts as soon as the buffer is full.
pushLog_OffByOne(buf, logEntry) ==
    LET pushed == Append(buf, logEntry)
    IN  IF Len(pushed) >= maxBufferSize THEN Tail(pushed) ELSE pushed

\* handleLog: the buffer after logEntry is pushed
pushLog(buf, logEntry) ==
    LET pushed == Append(buf, logEntry)
    IN  IF Len(pushed) > maxBufferSize THEN Tail(pushed) ELSE pushed

\* handleLog that sends the oldest buffered entry instead of the new one.
handleLog_Stale(pm_id, F) ==
    /\ listeners >= 1
    /\ nextId <= MaxLogs
    /\ F \subseteq OpenClients
    /\ LET logEntry == LogEntry(nextId, pm_id)
       IN  /\ logBuffer' = pushLog(logBuffer, logEntry)
           /\ ingested' = Append(ingested, logEntry)
           /\ step' = StepArg("handleLog", [pm_id |-> pm_id, event |-> ""],
                           broadcastToSubscribers(logBuffer'[1].processId,
                               Msg("LOG_MESSAGE", logBuffer'[1].processId, "", logBuffer'[1].id, FALSE), F))
    /\ nextId' = nextId + 1
    /\ UNCHANGED <<bus, listeners, metricsInterval, intervals, lists, initPc, hubVars,
                   clientVars, inits, missed, lastStatus>>

\* bus 'log:out' | 'log:err' | 'log:PM2' -> handleLog(packet, type)
handleLog(pm_id, F) ==
    /\ listeners >= 1
    /\ nextId <= MaxLogs
    /\ F \subseteq OpenClients
    /\ LET logEntry == LogEntry(nextId, pm_id)
       IN  /\ logBuffer' = pushLog(logBuffer, logEntry)
           /\ ingested' = Append(ingested, logEntry)
           /\ step' = StepArg("handleLog", [pm_id |-> pm_id, event |-> ""],
                           broadcastToSubscribers(pm_id,
                               Msg("LOG_MESSAGE", logEntry.processId, "", logEntry.id, FALSE), F))
    /\ nextId' = nextId + 1
    /\ UNCHANGED <<bus, listeners, metricsInterval, intervals, lists, initPc, hubVars,
                   clientVars, inits, missed, lastStatus>>

\* The 'process:event' handler sending through the subscription filter.
processEvent_Subscribers(pm_id, event, F) ==
    /\ listeners >= 1
    /\ F \subseteq OpenClients
    /\ step' = StepArg("processEvent", [pm_id |-> pm_id, event |-> event],
                        broadcastToSubscribers(pm_id, Msg("PROCESS_EVENT", pm_id, event, 0, FALSE), F))
    /\ StartList("event")
    /\ UNCHANGED <<bus, listeners, metricsInterval, intervals, logBuffer, initPc, hubVars,
                   histVars>>

\* bus 'process:event'
processEvent(pm_id, event, F) ==
    /\ listeners >= 1
    /\ F \subseteq OpenClients
    /\ step' = StepArg("processEvent", [pm_id |-> pm_id, event |-> event],
                        broadcast(Msg("PROCESS_EVENT", pm_id, event, 0, FALSE), F))
    /\ StartList("event")
    /\ UNCHANGED <<bus, listeners, metricsInterval, intervals, logBuffer, initPc, hubVars,
                   histVars>>

\* An interval callback that does not call broadcastProcessList.
pollTick_NoList ==
    /\ intervals >= 1
    /\ step' = Step("pollTick", NoFan)
    /\ UNCHANGED <<busVars, hubVars, clientVars, histVars>>

\* the setInterval callback of startMetricsPolling
pollTick ==
    /\ intervals >= 1
    /\ StartList("poll")
    /\ step' = Step("pollTick", NoFan)
    /\ UNCHANGED <<bus, listeners, metricsInterval, intervals, logBuffer, initPc, hubVars,
                   histVars>>

\* Array.prototype.slice(start) on a sequence: a negative start counts from
\* the end, and -0 is 0.
slice(s, start) ==
    LET k == IF start < 0
             THEN (IF Len(s) + start > 0 THEN Len(s) + start ELSE 0)
             ELSE Min(start, Len(s))
    IN  SubSeq(s, k + 1, Len(s))

\* getRecentLogs that skips the processId filter.
getRecentLogs_NoFilter(processId, limit) == slice(logBuffer, -limit)

\* getRecentLogs(processId, limit); processId = UNDEFINED is the call without one
getRecentLogs(processId, limit) ==
    LET logs == IF processId # UNDEFINED
                THEN SelectSeq(logBuffer, LAMBDA log : log.processId = processId)
                ELSE logBuffer
    IN  slice(logs, -limit)

\* a module calls pm2EventBus.getRecentLogs
GetRecentLogs(processId, limit) ==
    /\ step' = StepArg("getRecentLogs",
                       [processId |-> processId, limit |-> limit,
                        result |-> getRecentLogs(processId, limit)], NoFan)
    /\ UNCHANGED <<hubVars, clientVars, busVars, histVars>>

\* clearLogBuffer()
clearLogBuffer ==
    /\ logBuffer # <<>>
    /\ logBuffer' = <<>>
    /\ ingested' = <<>>
    /\ step' = Step("clearLogBuffer", NoFan)
    /\ UNCHANGED <<bus, listeners, metricsInterval, intervals, lists, initPc, hubVars,
                   clientVars, nextId, inits, missed, lastStatus>>

\* destroy()
destroy ==
    /\ intervals' = IF metricsInterval THEN intervals - 1 ELSE intervals
    /\ metricsInterval' = FALSE
    /\ bus' = FALSE
    /\ logBuffer' = <<>>
    /\ ingested' = <<>>
    /\ step' = Step("destroy", NoFan)
    /\ UNCHANGED <<listeners, lists, initPc, hubVars, clientVars, nextId, inits, missed,
                   lastStatus>>

\* The delay of reconnect() without the cap.
backoff_Uncapped(n) == reconnectDelay * 2^(n - 1)

\* reconnect(): the delay computed once reconnectAttempts has been raised to n
backoff(n) == Min(reconnectDelay * 2^(n - 1), maxReconnectDelay)

\* reconnect() that throws only when the counter is past the ceiling.
reconnect_PastCeiling ==
    /\ reconnectTimers < MaxReconnects
    /\ IF reconnectAttempts > maxReconnectAttempts
       THEN /\ step' = Step("reconnectRefused", NoFan)
            /\ UNCHANGED clientVars
       ELSE /\ reconnectAttempts' = reconnectAttempts + 1
            /\ connected' = FALSE
            /\ reconnectTimers' = reconnectTimers + 1
            /\ step' = StepArg("reconnect", [attempt |-> reconnectAttempts',
                                             delay |-> backoff(reconnectAttempts')], NoFan)
            /\ UNCHANGED <<connecting, attempts>>
    /\ UNCHANGED <<hubVars, busVars, histVars>>

\* pm2Client.reconnect() up to its setTimeout; at the ceiling it throws.
reconnect ==
    /\ reconnectTimers < MaxReconnects
    /\ IF reconnectAttempts >= maxReconnectAttempts
       THEN /\ step' = Step("reconnectRefused", NoFan)
            /\ UNCHANGED clientVars
       ELSE /\ reconnectAttempts' = reconnectAttempts + 1
            /\ connected' = FALSE
            /\ reconnectTimers' = reconnectTimers + 1
            /\ step' = StepArg("reconnect", [attempt |-> reconnectAttempts',
                                             delay |-> backoff(reconnectAttempts')], NoFan)
            /\ UNCHANGED <<connecting, attempts>>
    /\ UNCHANGED <<hubVars, busVars, histVars>>

\* reconnect() after its delay: await this.connect()
reconnectTimer ==
    /\ reconnectTimers >= 1
    /\ IF connect = "started"
       THEN /\ connecting' = TRUE
            /\ attempts' = Append(attempts, "reconnect")
       ELSE UNCHANGED <<connecting, attempts>>
    /\ reconnectTimers' = reconnectTimers - 1
    /\ step' = Step("reconnectTimer", NoFan)
    /\ UNCHANGED <<connected, reconnectAttempts, hubVars, busVars, histVars>>

\* broadcast() that deletes the sessions whose send failed.
apiBroadcast_Evict(msg, F) ==
    /\ wss
    /\ F \subseteq OpenClients
    /\ step' = Step("broadcast", broadcast(msg, F))
    /\ clients' = SelectSeq(clients, LAMBDA ws : ws \notin F)
    /\ UNCHANGED <<wss, heartbeatInterval, readyState, isAlive, subscriptions, clientVars,
                   busVars, histVars>>

\* wsManager.broadcast(message) called by any module
apiBroadcast(msg, F) ==
    /\ wss
    /\ F \subseteq OpenClients
    /\ step' = Step("broadcast", broadcast(msg, F))
    /\ UNCHANGED <<hubVars, clientVars, busVars, histVars>>

\* wsManager.broadcastToSubscribers(processId, message) called by any module
apiBroadcastToSubscribers(processId, msg, F) ==
    /\ wss
    /\ F \subseteq OpenClients
    /\ step' = Step("broadcastToSubscribers", broadcastToSubscribers(processId, msg, F))
    /\ UNCHANGED <<hubVars, clientVars, busVars, histVars>>

\* ---- useWebSocket (frontend hook) -----------------------------------------
SocketIds == 1..MaxSockets

\* The hook before its mount effect has run.
HookInit ==
    /\ mounted = "no"
    /\ wsRef = 0
    /\ sockets = [s \in SocketIds |-> "NEW"]
    /\ reconnectAttemptsRef = 0
    /\ reconnectTimeoutRef = 0
    /\ timeouts = {}
    /\ hookConnected = FALSE /\ hookConnecting = FALSE
    /\ terminal = FALSE
    /\ hstep = [op |-> "init", s |-> 0]

Created == {s \in SocketIds : sockets[s] # "NEW"}
Live == {s \in SocketIds : sockets[s] \in {"CONNECTING", "OPEN"}}

\* connect(): returns at once if wsRef.current is OPEN, else creates a socket.
hookConnect(op) ==
    IF wsRef # 0 /\ sockets[wsRef] = "OPEN"
    THEN /\ hstep' = [op |-> op, s |-> 0]
         /\ UNCHANGED <<wsRef, sockets, hookConnecting>>
    ELSE \E s \in SocketIds :
            /\ sockets[s] = "NEW"
            /\ \A r \in SocketIds : r < s => sockets[r] # "NEW"
            /\ hookConnecting' = TRUE
            /\ sockets' = [sockets EXCEPT ![s] = "CONNECTING"]
            /\ wsRef' = s
            /\ hstep' = [op |-> op, s |-> s]

\* disconnect()
hookDisconnect(op) ==
    /\ timeouts' = timeouts \ {reconnectTimeoutRef}
    /\ reconnectTimeoutRef' = 0
    /\ sockets' = IF wsRef # 0 /\ sockets[wsRef] \in {"CONNECTING", "OPEN"}
                  THEN [sockets EXCEPT ![wsRef] = "CLOSING"]
                  ELSE sockets
    /\ wsRef' = 0
    /\ hookConnected' = FALSE
    /\ hookConnecting' = FALSE
    /\ terminal' = TRUE
    /\ hstep' = [op |-> op, s |-> 0]
    /\ UNCHANGED reconnectAttemptsRef

\* useEffect(() => { connect(); ... }, []) on mount
Mount ==
    /\ mounted = "no"
    /\ mounted' = "yes"
    /\ hookConnect("mount")
    /\ UNCHANGED <<reconnectAttemptsRef, reconnectTimeoutRef, timeouts, hookConnected,
                   terminal, serverVars>>

\* the effect's cleanup on unmount
Unmount ==
    /\ mounted = "yes"
    /\ mounted' = "gone"
    /\ hookDisconnect("unmount")
    /\ UNCHANGED serverVars

\* the component calls the returned reconnect (= connect)
ApiReconnect ==
    /\ mounted = "yes"
    /\ hookConnect("reconnect")
    /\ terminal' = FALSE
    /\ UNCHANGED <<mounted, reconnectAttemptsRef, reconnectTimeoutRef, timeouts,
                   hookConnected, serverVars>>

\* the component calls the returned disconnect
ApiDisconnect ==
    /\ mounted = "yes"
    /\ hookDisconnect("disconnect")
    /\ UNCHANGED <<mounted, serverVars>>

\* a pending window.setTimeout(connect, delay) fires
TimeoutFires(id) ==
    /\ id \in timeouts
    /\ timeouts' = timeouts \ {id}
    /\ hookConnect("timeout")
    /\ UNCHANGED <<mounted, reconnectAttemptsRef, reconnectTimeoutRef, hookConnected,
                   terminal, serverVars>>

\* ws.onopen
OnOpen(s) ==
    /\ sockets[s] = "CONNECTING"
    /\ sockets' = [sockets EXCEPT ![s] = "OPEN"]
    /\ hookConnected' = TRUE
    /\ hookConnecting' = FALSE
    /\ reconnectAttemptsRef' = 0
    /\ hstep' = [op |-> "onopen", s |-> s]
    /\ UNCHANGED <<mounted, wsRef, reconnectTimeoutRef, timeouts, terminal, serverVars>>

\* ws.onclose that retries whatever the attempt counter is.
OnClose_NoCeiling(s) ==
    /\ sockets[s] \in {"CONNECTING", "OPEN", "CLOSING"}
    /\ sockets' = [sockets EXCEPT ![s] = "CLOSED"]
    /\ hookConnected' = FALSE
    /\ hookConnecting' = FALSE
    /\ wsRef' = 0
    /\ reconnectAttemptsRef' = reconnectAttemptsRef + 1
    /\ timeouts' = timeouts \cup {s}
    /\ reconnectTimeoutRef' = s
    /\ hstep' = [op |-> "onclose", s |-> s]
    /\ UNCHANGED <<mounted, terminal, serverVars>>

\* ws.onclose: the socket s is closed (by the server, the network, or after
\* ws.close()) and its close event is delivered
OnClose(s) ==
    /\ sockets[s] \in {"CONNECTING", "OPEN", "CLOSING"}
    /\ sockets' = [sockets EXCEPT ![s] = "CLOSED"]
    /\ hookConnected' = FALSE
    /\ hookConnecting' = FALSE
    /\ wsRef' = 0
    /\ IF reconnectAttemptsRef < hookMaxReconnectAttempts
       THEN /\ reconnectAttemptsRef' = reconnectAttemptsRef + 1
            /\ timeouts' = timeouts \cup {s}
            /\ reconnectTimeoutRef' = s
            /\ hstep' = [op |-> "onclose", s |-> s]
       ELSE /\ hstep' = [op |-> "oncloseGaveUp", s |-> s]
            /\ UNCHANGED <<reconnectAttemptsRef, timeouts, reconnectTimeoutRef>>
    /\ UNCHANGED <<mounted, terminal, serverVars>>

\* ---- the daemon's answers to overlapping list calls ------------------------
NotRead == -1   \* the daemon has not read its table for this call yet

DaemonInit ==
    /\ daemonState = 0
    /\ reads = <<>>
    /\ shown = 0

\* the interval callback, with its list request sent to the daemon
PollRequest ==
    /\ pollTick
    /\ reads' = Append(reads, NotRead)
    /\ UNCHANGED <<daemonState, shown>>

\* a process changes state in the daemon: the 'process:event' handler runs and
\* sends its list request
ChangeRequest(pm_id, event) ==
    /\ daemonState < MaxChanges
    /\ daemonState' = daemonState + 1
    /\ processEvent(pm_id, event, {})
    /\ reads' = Append(reads, NotRead)
    /\ UNCHANGED shown

\* the daemon takes up a list request and reads its process table
DaemonRead(i) ==
    /\ i \in 1..Len(reads)
    /\ reads[i] = NotRead
    /\ reads' = [reads EXCEPT ![i] = daemonState]
    /\ UNCHANGED <<daemonState, shown, serverVars>>

\* the daemon's answer to a list request arrives: the pm2.list callback and
\* the rest of broadcastProcessList
Answer(i, ok) ==
    /\ i \in 1..Len(reads)
    /\ reads[i] # NotRead
    /\ ListCallback(i, ok, {})
    /\ reads' = RemoveAt(reads, i)
    /\ shown' = IF ok THEN reads[i] ELSE shown
    /\ UNCHANGED daemonState

\* ---- useProcessStore, useLogStore (frontend stores) -----------------------
Process(pm_id, status) == [pm_id |-> pm_id, status |-> status]

\* data.processes of the PROCESS_LIST_UPDATE messages that arrive
ProcessLists ==
    {<<>>, <<Process(5, "online")>>, <<Process(7, "online")>>,
     <<Process(5, "stopped"), Process(7, "online")>>}

\* The stores as created.
StoreInit ==
    /\ processStore = [processes |-> <<>>, selectedProcessId |-> NULL,
                       isLoading |-> TRUE, error |-> "null"]
    /\ logStore = [logs |-> <<>>, isPaused |-> FALSE]
    /\ arrivals = <<>>
    /\ sstep = [op |-> "init"]

\* setProcesses that adds the processes it does not hold yet.
setProcesses_Merge(state, processes) ==
    [state EXCEPT !.processes =
                      @ \o SelectSeq(processes,
                                     LAMBDA p : \A i \in 1..Len(state.processes) :
                                                   state.processes[i].pm_id # p.pm_id),
                  !.isLoading = FALSE,
                  !.error = "null"]

\* useProcessStore.setProcesses
setProcesses(state, processes) ==
    [state EXCEPT !.processes = processes, !.isLoading = FALSE, !.error = "null"]

\* useProcessStore.updateProcess
updateProcess(state, id, status) ==
    [state EXCEPT !.processes =
        [i \in 1..Len(@) |-> IF @[i].pm_id = id THEN Process(id, status) ELSE @[i]]]

\* useProcessStore.removeProcess
removeProcess(state, id) ==
    [state EXCEPT !.processes = SelectSeq(@, LAMBDA p : p.pm_id # id),
                  !.selectedProcessId = IF @ = id THEN NULL ELSE @]

\* useLogStore.addLogs that appends while paused too.
addLogs_WhilePaused(state, entries) ==
    LET newLogs == state.logs \o entries
    IN  [state EXCEPT !.logs = IF Len(newLogs) > maxLogs
                               THEN slice(newLogs, -maxLogs) ELSE newLogs]

\* useLogStore.addLogs; addLog(entry) is the same code with one entry
addLogs(state, entries) ==
    IF state.isPaused THEN state
    ELSE LET newLogs == state.logs \o entries
         IN  [state EXCEPT !.logs = IF Len(newLogs) > maxLogs
                                    THEN slice(newLogs, -maxLogs) ELSE newLogs]

\* useLogStore.addLog
addLog(state, entry) == addLogs(state, <<entry>>)

\* The history after entries were handed to the log store.
Arrive(entries) ==
    arrivals \o [i \in 1..Len(entries) |->
                    [id |-> entries[i].id, paused |-> logStore.isPaused, cleared |-> FALSE]]

\* The next k entries the browser receives.
NewEntries(k) == [i \in 1..k |-> LogEntry(Len(arrivals) + i, 5)]

\* ws.onmessage -> handleMessage: PROCESS_LIST_UPDATE
OnProcessListUpdate(s, processes) ==
    /\ sockets[s] = "OPEN"
    /\ processStore' = setProcesses(processStore, processes)
    /\ sstep' = [op |-> "PROCESS_LIST_UPDATE", s |-> s, processes |-> processes,
                 before |-> processStore.processes,
                 again |-> sstep.op = "PROCESS_LIST_UPDATE" /\ sstep.processes = processes]
    /\ UNCHANGED <<logStore, arrivals, serverVars, hookVars>>

\* ws.onmessage -> handleMessage: LOG_MESSAGE
OnLogMessage(s) ==
    /\ sockets[s] = "OPEN"
    /\ Len(arrivals) < MaxEntries
    /\ LET entries == NewEntries(1)
       IN  /\ logStore' = addLog(logStore, entries[1])
           /\ arrivals' = Arrive(entries)
           /\ sstep' = [op |-> "LOG_MESSAGE", s |-> s, entries |-> entries]
    /\ UNCHANGED <<processStore, serverVars, hookVars>>

\* ws.onmessage: text that is not JSON, or a message of a type that changes
\* no store (PROCESS_EVENT, CONNECTION_STATUS, ERROR, unknown)
OnOtherMessage(s, type) ==
    /\ sockets[s] = "OPEN"
    /\ sstep' = [op |-> type, s |-> s]
    /\ UNCHANGED <<processStore, logStore, arrivals, serverVars, hookVars>>

\* a component calls addLogs(entries)
AddLogs(k) ==
    /\ Len(arrivals) + k <= MaxEntries
    /\ LET entries == NewEntries(k)
       IN  /\ logStore' = addLogs(logStore, entries)
           /\ arrivals' = Arrive(entries)
           /\ sstep' = [op |-> "addLogs", entries |-> entries]
    /\ UNCHANGED <<processStore, serverVars, hookVars>>

\* useLogStore.clearLogs
clearLogs ==
    /\ logStore' = [logStore EXCEPT !.logs = <<>>]
    /\ arrivals' = [i \in 1..Len(arrivals) |-> [arrivals[i] EXCEPT !.cleared = TRUE]]
    /\ sstep' = [op |-> "clearLogs"]
    /\ UNCHANGED <<processStore, serverVars, hookVars>>

\* useLogStore.togglePause
togglePause ==
    /\ logStore' = [logStore EXCEPT !.isPaused = ~@]
    /\ sstep' = [op |-> "togglePause"]
    /\ UNCHANGED <<processStore, arrivals, serverVars, hookVars>>

\* useLogStore.setPaused
setPaused(isPaused) ==
    /\ logStore' = [logStore EXCEPT !.isPaused = isPaused]
    /\ sstep' = [op |-> "setPaused"]
    /\ UNCHANGED <<processStore, arrivals, serverVars, hookVars>>

\* a component calls updateProcess(id, { status })
UpdateProcess(id, status) ==
    /\ processStore' = updateProcess(processStore, id, status)
    /\ sstep' = [op |-> "updateProcess"]
    /\ UNCHANGED <<logStore, arrivals, serverVars, hookVars>>

\* a component calls removeProcess(id)
RemoveProcess(id) ==
    /\ processStore' = removeProcess(processStore, id)
    /\ sstep' = [op |-> "removeProcess"]
    /\ UNCHANGED <<logStore, arrivals, serverVars, hookVars>>

\* useProcessStore.selectProcess
selectProcess(id) ==
    /\ processStore' = [processStore EXCEPT !.selectedProcessId = id]
    /\ sstep' = [op |-> "selectProcess"]
    /\ UNCHANGED <<logStore, arrivals, serverVars, hookVars>>

\* useProcessStore.setError
setError(error) ==
    /\ processStore' = [processStore EXCEPT !.error = error, !.isLoading = FALSE]
    /\ sstep' = [op |-> "setError"]
    /\ UNCHANGED <<logStore, arrivals, serverVars, hookVars>>

\* useProcessStore.reset
reset ==
    /\ processStore' = [processes |-> <<>>, selectedProcessId |-> NULL,
                        isLoading |-> TRUE, error |-> "null"]
    /\ sstep' = [op |-> "reset"]
    /\ UNCHANGED <<logStore, arrivals, serverVars, hookVars>>

\* ---- specifications -------------------------------------------------------
\* The state after the module singletons are constructed.
Init ==
    /\ wss = FALSE /\ heartbeatInterval = FALSE
    /\ clients = <<>>
    /\ readyState = [s \in Sessions |-> "NONE"]
    /\ isAlive = [s \in Sessions |-> FALSE]
    /\ subscriptions = [s \in Sessions |-> {}]
    /\ connected = FALSE /\ connecting = FALSE /\ reconnectAttempts = 0
    /\ attempts = <<>> /\ reconnectTimers = 0
    /\ bus = FALSE /\ listeners = 0 /\ metricsInterval = FALSE /\ intervals = 0
    /\ logBuffer = <<>> /\ lists = <<>> /\ initPc = "idle"
    /\ nextId = 1 /\ ingested = <<>> /\ inits = 0
    /\ missed = [s \in Sessions |-> 0]
    /\ lastStatus = [s \in Sessions |-> "none"]
    /\ step = Step("init", NoFan)
    /\ HookInit
    /\ StoreInit
    /\ DaemonInit

\* The state once startServer has run: wsManager.initialize(server),
\* pm2Client.connect(), pm2EventBus.initialize() and its first list call are done.
Started ==
    /\ wss = TRUE /\ heartbeatInterval = TRUE
    /\ clients = <<>>
    /\ readyState = [s \in Sessions |-> "NONE"]
    /\ isAlive = [s \in Sessions |-> FALSE]
    /\ subscriptions = [s \in Sessions |-> {}]
    /\ connected = TRUE /\ connecting = FALSE /\ reconnectAttempts = 0
    /\ attempts = <<>> /\ reconnectTimers = 0
    /\ bus = TRUE /\ listeners = 1 /\ metricsInterval = TRUE /\ intervals = 1
    /\ logBuffer = <<>> /\ lists = <<>> /\ initPc = "idle"
    /\ nextId = 1 /\ ingested = <<>> /\ inits = 1
    /\ missed = [s \in Sessions |-> 0]
    /\ lastStatus = [s \in Sessions |-> "none"]

InitStarted == Started /\ step = Step("init", NoFan) /\ HookInit /\ StoreInit /\ DaemonInit

\* startServer alone: it reaches Started.
NextBoot ==
    \/ HubInitialize /\ UNCHANGED outsideVars
    \/ Connect /\ UNCHANGED outsideVars
    \/ \E ok \in BOOLEAN : ConnectCallback(1, ok) /\ UNCHANGED outsideVars
    \/ initialize /\ UNCHANGED outsideVars
    \/ \E ok \in BOOLEAN : LaunchBusCallback(ok) /\ UNCHANGED outsideVars
    \/ \E ok \in BOOLEAN : ListCallback(1, ok, {}) /\ UNCHANGED outsideVars

SpecBoot == Init /\ [][NextBoot]_vars

\* WebSocketManager under any caller of its public methods, with sends that
\* may throw.
NextHub ==
    \/ HubInitialize /\ UNCHANGED outsideVars
    \/ \E ws \in Sessions, F \in FailSets : handleConnection(ws, F) /\ UNCHANGED outsideVars
    \/ \E ws \in Sessions : Pong(ws) /\ UNCHANGED outsideVars
    \/ \E ws \in Sessions, m \in ClientMsgs, F \in FailSets : handleMessage(ws, m, F) /\ UNCHANGED outsideVars
    \/ \E ws \in Sessions : PeerClose(ws) /\ UNCHANGED outsideVars
    \/ \E ws \in Sessions : CloseEvent(ws) /\ UNCHANGED outsideVars
    \/ \E ws \in Sessions : ErrorEvent(ws) /\ UNCHANGED outsideVars
    \/ checkHeartbeat /\ UNCHANGED outsideVars
    \/ shutdown /\ UNCHANGED outsideVars
    \/ \E msg \in ApiMsgs, F \in FailSets : apiBroadcast(msg, F) /\ UNCHANGED outsideVars
    \/ \E pm_id \in Pids, F \in FailSets :
          apiBroadcastToSubscribers(pm_id, Msg("LOG_MESSAGE", pm_id, "", 0, FALSE), F) /\ UNCHANGED outsideVars

SpecHub == Init /\ [][NextHub]_vars

\* The started relay seen from the sessions: log items and lifecycle items of
\* the daemon bus and list callbacks, with sessions that come, subscribe and go.
NextRelay ==
    \/ \E ws \in Sessions : handleConnection(ws, {}) /\ UNCHANGED outsideVars
    \/ \E ws \in Sessions, m \in ClientMsgs : handleMessage(ws, m, {}) /\ UNCHANGED outsideVars
    \/ \E ws \in Sessions : PeerClose(ws) /\ UNCHANGED outsideVars
    \/ \E ws \in Sessions : CloseEvent(ws) /\ UNCHANGED outsideVars
    \/ \E pm_id \in Pids : handleLog(pm_id, {}) /\ UNCHANGED outsideVars
    \/ \E pm_id \in Pids, event \in Events : processEvent(pm_id, event, {}) /\ UNCHANGED outsideVars
    \/ \E i \in 1..MaxLists, ok \in BOOLEAN : ListCallback(i, ok, {}) /\ UNCHANGED outsideVars

SpecRelay == InitStarted /\ [][NextRelay]_vars

\* The process-list refresh of the started relay: lifecycle items, poll ticks
\* and list callbacks, with sessions that come, subscribe and go.
NextRefresh ==
    \/ \E ws \in Sessions : handleConnection(ws, {}) /\ UNCHANGED outsideVars
    \/ \E ws \in Sessions, m \in ClientMsgs : handleMessage(ws, m, {}) /\ UNCHANGED outsideVars
    \/ \E ws \in Sessions : PeerClose(ws) /\ UNCHANGED outsideVars
    \/ \E ws \in Sessions : CloseEvent(ws) /\ UNCHANGED outsideVars
    \/ \E pm_id \in Pids, event \in Events : processEvent(pm_id, event, {}) /\ UNCHANGED outsideVars
    \/ pollTick /\ UNCHANGED outsideVars
    \/ \E i \in 1..MaxLists, ok \in BOOLEAN : ListCallback(i, ok, {}) /\ UNCHANGED outsideVars

SpecRefresh == InitStarted /\ [][NextRefresh]_vars

\* Refreshes that fail: list calls of poll ticks and of lifecycle items with
\* either outcome, while sessions come and go and log items are buffered.
NextFailure ==
    \/ \E ws \in Sessions : handleConnection(ws, {}) /\ UNCHANGED outsideVars
    \/ \E ws \in Sessions : PeerClose(ws) /\ UNCHANGED outsideVars
    \/ \E ws \in Sessions : CloseEvent(ws) /\ UNCHANGED outsideVars
    \/ \E pm_id \in Pids : handleLog(pm_id, {}) /\ UNCHANGED outsideVars
    \/ \E pm_id \in Pids : processEvent(pm_id, "exit", {}) /\ UNCHANGED outsideVars
    \/ pollTick /\ UNCHANGED outsideVars
    \/ \E i \in 1..MaxLists, ok \in BOOLEAN : ListCallback(i, ok, {}) /\ UNCHANGED outsideVars

SpecFailure == InitStarted /\ [][NextFailure]_vars

\* PM2EventBus from construction: initialize and destroy calls, bus items, poll
\* ticks, and the daemon calls they wait for. No session is connected.
NextBus ==
    \/ Connect /\ UNCHANGED outsideVars
    \/ \E i \in 1..MaxLists + 2, ok \in BOOLEAN : ConnectCallback(i, ok) /\ UNCHANGED outsideVars
    \/ initialize /\ UNCHANGED outsideVars
    \/ \E ok \in BOOLEAN : LaunchBusCallback(ok) /\ UNCHANGED outsideVars
    \/ \E pm_id \in Pids : handleLog(pm_id, {}) /\ UNCHANGED outsideVars
    \/ pollTick /\ UNCHANGED outsideVars
    \/ \E i \in 1..MaxLists, ok \in BOOLEAN : ListCallback(i, ok, {}) /\ UNCHANGED outsideVars
    \/ clearLogBuffer /\ UNCHANGED outsideVars
    \/ destroy /\ UNCHANGED outsideVars

SpecBus == Init /\ [][NextBus]_vars

\* The daemon connection under its callers: connect, disconnect and reconnect
\* calls, list calls from the poll timer, and sessions being accepted.
NextSupervisor ==
    \/ Connect /\ UNCHANGED outsideVars
    \/ disconnect /\ UNCHANGED outsideVars
    \/ reconnect /\ UNCHANGED outsideVars
    \/ reconnectTimer /\ UNCHANGED outsideVars
    \/ \E i \in 1..MaxLists + 2, ok \in BOOLEAN : ConnectCallback(i, ok) /\ UNCHANGED outsideVars
    \/ pollTick /\ UNCHANGED outsideVars
    \/ \E i \in 1..MaxLists, ok \in BOOLEAN : ListCallback(i, ok, {}) /\ UNCHANGED outsideVars
    \/ \E ws \in Sessions : handleConnection(ws, {}) /\ UNCHANGED outsideVars
    \/ \E ws \in Sessions : CloseEvent(ws) /\ UNCHANGED outsideVars
    \/ \E ws \in Sessions : PeerClose(ws) /\ UNCHANGED outsideVars

SpecSupervisor == InitStarted /\ [][NextSupervisor]_vars

\* The inbound protocol: sessions sending well-formed and malformed frames
\* while log items are relayed.
NextProtocol ==
    \/ \E ws \in Sessions : handleConnection(ws, {}) /\ UNCHANGED outsideVars
    \/ \E ws \in Sessions, m \in ClientMsgs \cup MalformedMsgs : handleMessage(ws, m, {}) /\ UNCHANGED outsideVars
    \/ \E ws \in Sessions : PeerClose(ws) /\ UNCHANGED outsideVars
    \/ \E ws \in Sessions : CloseEvent(ws) /\ UNCHANGED outsideVars
    \/ \E pm_id \in Pids : handleLog(pm_id, {}) /\ UNCHANGED outsideVars

SpecProtocol == InitStarted /\ [][NextProtocol]_vars

\* Polling alone: the poll timer and its list calls, with sessions that come
\* and go, until destroy(). The timer fires again and again, the daemon
\* answers every list call, and its answers do not fail forever.
NextPoll ==
    \/ \E ws \in Sessions : handleConnection(ws, {}) /\ UNCHANGED outsideVars
    \/ \E ws \in Sessions : PeerClose(ws) /\ UNCHANGED outsideVars
    \/ \E ws \in Sessions : CloseEvent(ws) /\ UNCHANGED outsideVars
    \/ pollTick /\ UNCHANGED outsideVars
    \/ \E i \in 1..MaxLists, ok \in BOOLEAN : ListCallback(i, ok, {}) /\ UNCHANGED outsideVars
    \/ destroy /\ UNCHANGED outsideVars

SpecPoll ==
    /\ InitStarted
    /\ [][NextPoll]_vars
    /\ WF_vars(pollTick /\ UNCHANGED outsideVars)
    /\ WF_vars(\E i \in 1..MaxLists, ok \in BOOLEAN : ListCallback(i, ok, {}) /\ UNCHANGED outsideVars)
    /\ SF_vars(\E i \in 1..MaxLists : ListCallback(i, TRUE, {}) /\ UNCHANGED outsideVars)

\* The log buffer and its readers.
NextLogs ==
    \/ \E pm_id \in Pids : handleLog(pm_id, {}) /\ UNCHANGED outsideVars
    \/ clearLogBuffer /\ UNCHANGED outsideVars
    \/ \E processId \in Pids \cup {UNDEFINED}, limit \in -1..MaxLimit :
          GetRecentLogs(processId, limit) /\ UNCHANGED outsideVars

SpecLogs == InitStarted /\ [][NextLogs]_vars

\* The browser side: the component mounting, using and unmounting the hook,
\* sockets opening and closing, retry timers firing.
NextHook ==
    \/ Mount /\ UNCHANGED <<storeVars, daemonVars>>
    \/ Unmount /\ UNCHANGED <<storeVars, daemonVars>>
    \/ ApiReconnect /\ UNCHANGED <<storeVars, daemonVars>>
    \/ ApiDisconnect /\ UNCHANGED <<storeVars, daemonVars>>
    \/ \E id \in SocketIds : TimeoutFires(id) /\ UNCHANGED <<storeVars, daemonVars>>
    \/ \E s \in SocketIds : OnOpen(s) /\ UNCHANGED <<storeVars, daemonVars>>
    \/ \E s \in SocketIds : OnClose(s) /\ UNCHANGED <<storeVars, daemonVars>>

SpecHook == Init /\ [][NextHook]_vars

\* The process store of a mounted page: snapshots arriving on the hook's open
\* sockets, and the store's other actions.
NextProcessStore ==
    \/ Mount /\ UNCHANGED <<storeVars, daemonVars>>
    \/ \E s \in SocketIds : OnOpen(s) /\ UNCHANGED <<storeVars, daemonVars>>
    \/ \E s \in SocketIds : OnClose(s) /\ UNCHANGED <<storeVars, daemonVars>>
    \/ \E id \in SocketIds : TimeoutFires(id) /\ UNCHANGED <<storeVars, daemonVars>>
    \/ \E s \in SocketIds, processes \in ProcessLists : OnProcessListUpdate(s, processes) /\ UNCHANGED daemonVars
    \/ \E s \in SocketIds : OnOtherMessage(s, "PROCESS_EVENT") /\ UNCHANGED daemonVars
    \/ \E id \in Pids : UpdateProcess(id, "errored") /\ UNCHANGED daemonVars
    \/ \E id \in Pids : RemoveProcess(id) /\ UNCHANGED daemonVars
    \/ \E id \in Pids \cup {NULL} : selectProcess(id) /\ UNCHANGED daemonVars
    \/ setError("failed") /\ UNCHANGED daemonVars
    \/ reset /\ UNCHANGED daemonVars

SpecProcessStore == Init /\ [][NextProcessStore]_vars

\* The log store of a mounted page: log messages arriving on the hook's open
\* sockets, batches added by a component, pausing and clearing.
NextLogStore ==
    \/ Mount /\ UNCHANGED <<storeVars, daemonVars>>
    \/ \E s \in SocketIds : OnOpen(s) /\ UNCHANGED <<storeVars, daemonVars>>
    \/ \E s \in SocketIds : OnClose(s) /\ UNCHANGED <<storeVars, daemonVars>>
    \/ \E id \in SocketIds : TimeoutFires(id) /\ UNCHANGED <<storeVars, daemonVars>>
    \/ \E s \in SocketIds : OnLogMessage(s) /\ UNCHANGED daemonVars
    \/ \E k \in 1..MaxEntries : AddLogs(k) /\ UNCHANGED daemonVars
    \/ clearLogs /\ UNCHANGED daemonVars
    \/ togglePause /\ UNCHANGED daemonVars
    \/ \E isPaused \in BOOLEAN : setPaused(isPaused) /\ UNCHANGED daemonVars

SpecLogStore == Init /\ [][NextLogStore]_vars

\* Overlapping refreshes: poll ticks and process changes send list requests,
\* the daemon reads its table for each and answers, sessions come and go.
NextSnapshots ==
    \/ \E ws \in Sessions : handleConnection(ws, {}) /\ UNCHANGED outsideVars
    \/ \E ws \in Sessions : PeerClose(ws) /\ UNCHANGED outsideVars
    \/ \E ws \in Sessions : CloseEvent(ws) /\ UNCHANGED outsideVars
    \/ PollRequest /\ UNCHANGED browserVars
    \/ \E pm_id \in Pids, event \in Events : ChangeRequest(pm_id, event) /\ UNCHANGED browserVars
    \/ \E i \in 1..MaxLists : DaemonRead(i) /\ UNCHANGED browserVars
    \/ \E i \in 1..MaxLists, ok \in BOOLEAN : Answer(i, ok) /\ UNCHANGED browserVars

SpecSnapshots == InitStarted /\ [][NextSnapshots]_vars

\* ---- claims ---------------------------------------------------------------
LastN(s, n) == SubSeq(s, Len(s) - n + 1, Len(s))
Matching(processId) ==
    {ws \in OpenClients : ALL \in subscriptions[ws] \/ processId \in subscriptions[ws]}
\* broadcastProcessList() calls in flight that a lifecycle item started
EventCalls == Cardinality({i \in 1..Len(lists) : lists[i].origin = "event"})

\* C1: a session whose subscription set is exactly {7} is never sent a
\* LOG_MESSAGE of another process, and every PROCESS_LIST_UPDATE and
\* PROCESS_EVENT is sent to every open session of the session set, whatever
\* its subscriptions.
C1_SubscriptionFilter ==
    /\ step.fan.msg.type = "LOG_MESSAGE" =>
          \A ws \in step.fan.called :
             subscriptions[ws] = {7} => step.fan.msg.processId = 7
    /\ step.fan.msg.type \in {"PROCESS_LIST_UPDATE", "PROCESS_EVENT"} =>
          OpenClients \subseteq step.fan.called

\* A log line of process 5 reaches another session and not the open session
\* subscribed to {7}.
C1_Witness ==
    /\ step.op = "handleLog"
    /\ step.fan.msg.processId = 5
    /\ step.fan.called # {}
    /\ \E ws \in OpenClients : subscriptions[ws] = {7} /\ ws \notin step.fan.called

\* C2: the log buffer never holds more than maxBufferSize entries and is
\* exactly the most recent min(n, maxBufferSize) of the n entries ingested
\* since it was last emptied, in arrival order.
C2_RingBuffer ==
    /\ Len(logBuffer) <= maxBufferSize
    /\ logBuffer = LastN(ingested, Min(Len(ingested), maxBufferSize))

\* An entry arrived at a full buffer and the oldest one was evicted.
C2_Witness ==
    /\ step.op = "handleLog"
    /\ Len(ingested) > maxBufferSize
    /\ Len(logBuffer) = maxBufferSize
    /\ logBuffer[1].id = ingested[1].id + (Len(ingested) - maxBufferSize)

\* C3: ensureConnected() returns only when the supervisor is Connected, so
\* every pm2.list call that awaited it was issued while Connected.
C3_Claim ==
    \A i \in 1..Len(lists) : lists[i].stage = "list" => lists[i].conn

\* C4: a daemon I/O failure (a failed list call) takes the supervisor out of
\* Connected, towards an automatic connection attempt.
C4_Claim ==
    step.op = "listFailed" => ~connected

\* C5: while the supervisor is not Connected, the last CONNECTION_STATUS sent
\* to every open session says pm2Connected = false, and no CONNECTION_STATUS
\* says pm2Connected = true while the supervisor is not Connected.
C5_Claim ==
    /\ \A ws \in OpenClients : ~connected => lastStatus[ws] = "false"
    /\ (step.fan.msg.type = "CONNECTION_STATUS" /\ step.fan.msg.pm2Connected) => connected

\* C6: a lifecycle item is sent as a PROCESS_EVENT with its process id and
\* event to every open session whatever its subscriptions, and starts a list
\* call in the same task; a list call that succeeds sends PROCESS_LIST_UPDATE
\* to every open session.
C6_LifecycleRelay ==
    [][ /\ step'.op = "processEvent" =>
              /\ step'.fan.msg.type = "PROCESS_EVENT"
              /\ step'.fan.msg.processId = step'.arg.pm_id
              /\ step'.fan.msg.event = step'.arg.event
              /\ OpenClients' \subseteq step'.fan.called
              /\ Len(lists') = Len(lists) + 1
              /\ lists'[Len(lists')] = ListCall("event", "list", TRUE)
        /\ step'.op = "listed" =>
              /\ step'.fan.msg.type = "PROCESS_LIST_UPDATE"
              /\ OpenClients' \subseteq step'.fan.called
      ]_vars

\* An exit of process 5 reached a session that is subscribed to nothing.
C6_Witness ==
    /\ step.op = "processEvent"
    /\ step.arg = [pm_id |-> 5, event |-> "exit"]
    /\ \E ws \in step.fan.called : subscriptions[ws] = {}
    /\ lists # <<>>

C9_FailureIsolated ==
    step.op \in {"broadcast", "broadcastToSubscribers"} =>
        /\ ~step.fan.threw
        /\ step.fan.called = IF step.op = "broadcast" THEN OpenClients
                             ELSE Matching(step.fan.msg.processId)
        /\ step.fan.failed \subseteq step.fan.called

\* The first session of the set failed and the second one was still sent to.
C9_Witness ==
    /\ step.op = "broadcast"
    /\ Len(clients) = 2
    /\ step.fan.failed = {clients[1]}
    /\ clients[2] \in step.fan.called

\* C10: a tick leaves every session it pinged unconfirmed, a pong confirms
\* it, and a session that is unconfirmed at a tick is terminated and removed:
\* no session of the set has seen two ticks since its last pong.
C10_HeartbeatEviction ==
    /\ \A ws \in Range(clients) : missed[ws] <= 1 /\ (isAlive[ws] <=> missed[ws] = 0)
    /\ \A ws \in Sessions : missed[ws] = 2 => ws \notin Range(clients) /\ readyState[ws] # "OPEN"
    /\ step.op = "checkHeartbeat" => \A ws \in Range(clients) : ~isAlive[ws]

\* A tick evicted one session and pinged another.
C10_Witness ==
    /\ step.op = "checkHeartbeat"
    /\ \E ws \in Sessions : missed[ws] = 2
    /\ \E ws \in Range(clients) : missed[ws] = 1

\* The frames the protocol calls malformed.
IsMalformed(m) ==
    \/ m.kind \in {"badjson", "null", "notEnvelope", "unknown"}
    \/ m.kind \in {"SUBSCRIBE_LOGS", "UNSUBSCRIBE_LOGS"}
          /\ (~m.data \/ m.processId \notin {ALL} \cup Pids)

\* C11: every malformed inbound message is answered by an ERROR sent to the
\* session it came from and to no other, and changes no subscription set.
C11_Claim ==
    [][ (step'.op = "handleMessage" /\ IsMalformed(step'.arg.m)) =>
            /\ step'.fan.msg.type = "ERROR"
            /\ step'.fan.called = {step'.arg.ws}
            /\ subscriptions' = subscriptions
      ]_vars

\* C12: once disconnect() has run (also on unmount) and until connect() is
\* called again, no reconnect timer is pending and the hook creates no socket.
C12_Claim ==
    [][ terminal' => /\ timeouts' = {}
                     /\ (terminal => Created' = Created) ]_vars

\* C13: with no initialize() in flight, the task that runs right after
\* destroy() ingests no bus item (the log
\* buffer stays empty), emits no LOG_MESSAGE, PROCESS_EVENT or
\* PROCESS_LIST_UPDATE and starts no list call; a second destroy() changes
\* nothing.
C13_Claim ==
    [][ (step.op = "destroy" /\ initPc = "idle" /\ step'.op # "initialize") =>
            /\ logBuffer' = <<>>
            /\ step'.fan.msg.type \notin {"LOG_MESSAGE", "PROCESS_EVENT", "PROCESS_LIST_UPDATE"}
            /\ Len(lists') <= Len(lists)
            /\ (step'.op = "destroy" => busVars' = busVars)
      ]_vars

\* C14: the counter is raised by every reconnect() that is not refused and is
\* zero after every successful connection, so the n-th consecutive
\* reconnect() finds it at n - 1; its delay is min(1000 * 2^(n-1), 30000) ms,
\* which is 1000 for the first one after a success and never less than the
\* delay of the one before.
C14_Backoff ==
    [][ /\ step'.op = "reconnect" =>
              /\ reconnectAttempts' = reconnectAttempts + 1
              /\ step'.arg.delay = Min(1000 * 2^reconnectAttempts, 30000)
              /\ (reconnectAttempts = 0 => step'.arg.delay = 1000)
              /\ (reconnectAttempts >= 1 =>
                     step'.arg.delay >= Min(1000 * 2^(reconnectAttempts - 1), 30000))
        /\ step'.op = "connected" => reconnectAttempts' = 0
        /\ step'.op \notin {"reconnect", "connected"} => reconnectAttempts' = reconnectAttempts
      ]_vars

\* The sixth consecutive reconnect() waits the capped 30000 ms.
C14_Witness ==
    /\ step.op = "reconnect"
    /\ step.arg.attempt = 6
    /\ step.arg.delay = 30000

\* C15: reconnect() is refused exactly when 10 consecutive reconnects have
\* been made with no successful connection in between; a refused call leaves
\* the connection and the counter as they are and starts nothing; the
\* counter goes back to zero only by a successful connection.
C15_Ceiling ==
    [][ /\ step'.op = "reconnectRefused" =>
              /\ reconnectAttempts = 10
              /\ clientVars' = clientVars
        /\ step'.op = "reconnect" => reconnectAttempts < 10
        /\ reconnectAttempts' <= 10
        /\ (reconnectAttempts' < reconnectAttempts) =>
              (step'.op = "connected" /\ reconnectAttempts' = 0)
      ]_vars

\* The eleventh consecutive reconnect() was refused and left no timer behind.
C15_Witness ==
    /\ step.op = "reconnectRefused"
    /\ reconnectAttempts = 10
    /\ reconnectTimers = 0

\* r is a subsequence of b: entries of b, in the order of b.
IsSubsequence(r, b) ==
    \E f \in [1..Len(r) -> 1..Len(b)] :
        /\ \A i \in 1..Len(r) : r[i] = b[f[i]]
        /\ \A i, j \in 1..Len(r) : i < j => f[i] < f[j]

\* C16: getRecentLogs(p, limit) returns a subsequence of the buffer in buffer
\* order whose entries all have processId = p, and leaves the buffer as it was.
C16_Filtered ==
    [][ step'.op = "getRecentLogs" =>
            /\ logBuffer' = logBuffer
            /\ IsSubsequence(step'.arg.result, logBuffer)
            /\ step'.arg.processId # UNDEFINED =>
                   \A i \in 1..Len(step'.arg.result) :
                       step'.arg.result[i].processId = step'.arg.processId
      ]_vars

\* A buffer holding both processes is read for process 7 and one entry of it
\* is returned.
C16_Witness ==
    /\ step.op = "getRecentLogs"
    /\ step.arg.processId = 7
    /\ \E i \in 1..Len(logBuffer) : logBuffer[i].processId = 5
    /\ Len(step.arg.result) = 1

\* C17: for limit >= 0, getRecentLogs returns at most limit entries: the last
\* min(limit, m) of the m matching entries of the buffer.
C17_Claim ==
    (step.op = "getRecentLogs" /\ step.arg.limit >= 0) =>
        LET matching == IF step.arg.processId = UNDEFINED THEN logBuffer
                        ELSE SelectSeq(logBuffer,
                                       LAMBDA log : log.processId = step.arg.processId)
        IN  /\ Len(step.arg.result) <= step.arg.limit
            /\ step.arg.result = LastN(matching, Min(step.arg.limit, Len(matching)))

\* C18: every poll-tick list call that succeeds sends PROCESS_LIST_UPDATE to
\* every session open at that time, and a session that stays open while the
\* poll timer runs is sent snapshots again and again, with no lifecycle item
\* at all.
C18_PollConvergence ==
    /\ [][ (step'.op = "listed" /\ step'.arg.origin = "poll") =>
              /\ step'.fan.msg.type = "PROCESS_LIST_UPDATE"
              /\ step'.fan.called = OpenClients' ]_vars
    /\ \A ws \in Sessions :
          <>[](ws \in OpenClients /\ intervals >= 1) =>
              []<>(step.op = "listed" /\ step.arg.origin = "poll" /\ ws \in step.fan.called)

\* A snapshot of a poll tick reached two open sessions.
C18_Witness ==
    /\ step.op = "listed"
    /\ step.arg.origin = "poll"
    /\ Len(clients) = 2
    /\ step.fan.called = Range(clients)

\* C19: a failed list call of a refresh broadcasts nothing and changes
\* neither the session set nor the log buffer nor the poll timer, and the
\* tick that follows it issues a new list call.
C19_FailureContained ==
    [][ /\ step'.op = "listFailed" =>
              /\ step'.fan = NoFan
              /\ clients' = clients
              /\ logBuffer' = logBuffer
              /\ metricsInterval' = metricsInterval /\ intervals' = intervals
              /\ intervals' >= 1
        /\ (step.op = "listFailed" /\ step'.op = "pollTick") =>
              /\ Len(lists') = Len(lists) + 1
              /\ lists'[Len(lists')] = ListCall("poll", "list", TRUE)
      ]_vars

\* The list call of a poll tick failed while a session was open and a log
\* entry was buffered.
C19_Witness ==
    /\ step.op = "listFailed"
    /\ step.arg.origin = "poll"
    /\ OpenClients # {}
    /\ logBuffer # <<>>

\* C20: accepting a connection puts the new session in the session set with
\* isAlive true and subscriptions exactly {all}, and calls send on it with
\* CONNECTION_STATUS in the same step; a session enters the set in no other
\* way, and a fan-out of any other handler calls send only on sessions that
\* were in the set before it, so none reaches a session ahead of its status.
C20_AcceptFirst ==
    [][ /\ step'.op = "handleConnection" =>
              \E ws \in Sessions :
                  /\ readyState[ws] = "NONE"
                  /\ ws \notin Range(clients)
                  /\ ws \in Range(clients')
                  /\ isAlive'[ws]
                  /\ subscriptions'[ws] = {ALL}
                  /\ step'.fan.msg.type = "CONNECTION_STATUS"
                  /\ step'.fan.called = {ws}
        /\ Range(clients') \ Range(clients) # {} => step'.op = "handleConnection"
        /\ step'.op # "handleConnection" => step'.fan.called \subseteq Range(clients)
      ]_vars

\* A second session was accepted and its status message went out.
C20_Witness ==
    /\ step.op = "handleConnection"
    /\ Len(clients) = 2
    /\ step.fan.called = {clients[2]}
    /\ step.fan.failed = {}
    /\ subscriptions[clients[1]] # {ALL}

\* C21: a LOG_MESSAGE is sent only by the task that ingests its log item, in
\* that very task, once: it carries the entry just ingested, which is newer
\* than every entry ingested before, and it goes to the open sessions
\* subscribed to its process. The sends to one session for one process
\* therefore follow the order of ingestion, whatever runs in between.
C21_LogOrder ==
    [][ step'.fan.msg.type = "LOG_MESSAGE" =>
            /\ step'.op = "handleLog"
            /\ ingested' = Append(ingested, LogEntry(step'.fan.msg.id, step'.fan.msg.processId))
            /\ \A i \in 1..Len(ingested) : ingested[i].id < step'.fan.msg.id
            /\ step'.fan.msg.processId = step'.arg.pm_id
            /\ step'.fan.called = Matching(step'.fan.msg.processId)
      ]_vars

\* The third log item, the second of process 7 with one of process 5 between
\* them, was sent to a session subscribed to 7 only.
C21_Witness ==
    /\ step.op = "handleLog"
    /\ Len(ingested) = 3
    /\ ingested[1].processId = 7 /\ ingested[2].processId = 5 /\ ingested[3].processId = 7
    /\ \E ws \in step.fan.called : subscriptions[ws] = {7}

\* C22: a close event schedules exactly one reconnect timer and counts one
\* attempt while the attempt counter is below the maximum, and schedules
\* nothing and counts nothing once the counter has reached it; an open event
\* resets the counter to zero; the counter never exceeds the maximum.
C22_RetryPolicy ==
    [][ /\ hstep'.op \in {"onclose", "oncloseGaveUp"} =>
              IF reconnectAttemptsRef < hookMaxReconnectAttempts
              THEN /\ timeouts \subseteq timeouts'
                   /\ Cardinality(timeouts' \ timeouts) = 1
                   /\ reconnectAttemptsRef' = reconnectAttemptsRef + 1
              ELSE /\ timeouts' = timeouts
                   /\ reconnectAttemptsRef' = reconnectAttemptsRef
        /\ hstep'.op = "onopen" => reconnectAttemptsRef' = 0
        /\ reconnectAttemptsRef' <= hookMaxReconnectAttempts
      ]_vars

\* The socket of the last allowed attempt closed without ever opening: the
\* hook, still mounted and not disconnected, has given up.
C22_Witness ==
    /\ hstep.op \in {"onclose", "oncloseGaveUp"}
    /\ reconnectAttemptsRef = hookMaxReconnectAttempts
    /\ timeouts = {}
    /\ Live = {}
    /\ mounted = "yes" /\ ~terminal
    /\ Cardinality(Created) = hookMaxReconnectAttempts + 1

\* C23: applying a PROCESS_LIST_UPDATE to the process store leaves the
\* message's list as the store's list whatever the list was before, and
\* applying the same message again changes nothing.
C23_FullReplace ==
    /\ \A processes \in ProcessLists :
          LET once == setProcesses(processStore, processes)
          IN  /\ once.processes = processes
              /\ setProcesses(once, processes) = once
    /\ sstep.op = "PROCESS_LIST_UPDATE" =>
          /\ processStore.processes = sstep.processes
          /\ sstep.again => processStore = setProcesses(processStore, sstep.processes)

\* The same snapshot arrived twice in a row while a process was selected:
\* the second application replaced the list by itself.
C23_Witness ==
    /\ sstep.op = "PROCESS_LIST_UPDATE"
    /\ sstep.again
    /\ sstep.processes = <<Process(5, "stopped"), Process(7, "online")>>
    /\ sstep.before = sstep.processes
    /\ processStore.selectedProcessId = 5

\* C24: at most one socket created by the hook is CONNECTING or OPEN at any
\* time, and the close event of a socket that wsRef does not refer to leaves
\* wsRef as it is.
C24_Claim ==
    [][ /\ Cardinality(Live') <= 1
        /\ (hstep'.op \in {"onclose", "oncloseGaveUp"} /\ wsRef # 0 /\ wsRef # hstep'.s) =>
              wsRef' = wsRef
      ]_vars

\* C25: at most one pm2.connect call awaits its callback at any time, and the
\* connected and connecting flags are never both true.
C25_SingleAttempt ==
    /\ Len(attempts) <= 1
    /\ ~(connected /\ connecting)

\* While the attempt started by reconnect() was in flight, a list call went
\* through ensureConnected() and no second attempt was started.
C25_Witness ==
    /\ connecting
    /\ attempts = <<"reconnect">>
    /\ \E i \in 1..Len(lists) : lists[i].stage = "list" /\ ~lists[i].conn

\* C26: a snapshot broadcast never holds an older state of the daemon's
\* process table than the snapshot broadcast before it.
C26_Claim ==
    [][ step'.op = "listed" => shown' >= shown ]_vars

\* C27: at most one poll timer runs, the handlers of setupLogHandlers and
\* setupProcessEventHandlers are registered at most once (so each bus item is
\* handled once), and right after destroy() no poll timer runs.
C27_Claim ==
    /\ intervals <= 1
    /\ listeners <= 1
    /\ step.op = "destroy" => intervals = 0

\* C28: the log item of process 7 handled right after a session's
\* UNSUBSCRIBE_LOGS for 7 was processed is not sent to that session, whatever
\* the session's subscriptions were before (the default {all} included).
C28_Claim ==
    [][ ( /\ step.op = "handleMessage"
          /\ step.arg.m.kind = "UNSUBSCRIBE_LOGS"
          /\ step.arg.m.processId = 7
          /\ step'.op = "handleLog"
          /\ step'.arg.pm_id = 7 ) =>
            step.arg.ws \notin step'.fan.called
      ]_vars

\* C29: a heartbeat tick neither removes nor terminates a session that has
\* seen no tick since it was accepted or since its last pong.
C29_ResponsiveKept ==
    [][ step'.op = "checkHeartbeat" =>
            \A ws \in Range(clients) :
                missed[ws] = 0 => /\ ws \in Range(clients')
                                  /\ readyState'[ws] = readyState[ws]
      ]_vars

\* One tick terminated a session that had not answered the previous ping and
\* kept the other session, accepted or heard from since that ping.
C29_Witness ==
    /\ step.op = "checkHeartbeat"
    /\ \E ws \in Range(clients) : missed[ws] = 1 /\ readyState[ws] = "OPEN"
    /\ \E ws \in Sessions \ Range(clients) : missed[ws] = 2 /\ readyState[ws] = "CLOSING"

\* C30: the log list never holds more than maxLogs entries; it is, in arrival
\* order, the last entries among those handed to the store while it was not
\* paused since the last clearLogs; an entry handed to it while paused is not
\* in the list; no task of the socket hook (open, close, retry) changes it.
C30_LogList ==
    /\ [](LET kept == SelectSeq(arrivals, LAMBDA a : ~a.paused /\ ~a.cleared)
              last == LastN(kept, Min(Len(kept), maxLogs))
          IN  /\ Len(logStore.logs) <= maxLogs
              /\ Len(logStore.logs) = Len(last)
              /\ \A i \in 1..Len(last) : logStore.logs[i].id = last[i].id
              /\ \A i \in 1..Len(arrivals) :
                    arrivals[i].paused =>
                        \A j \in 1..Len(logStore.logs) : logStore.logs[j].id # arrivals[i].id)
    /\ [][ hstep' # hstep => logStore' = logStore ]_vars

\* The socket closed while the list was full: earlier entries had been shifted
\* out, and an entry that arrived during a pause is missing from it.
C30_Witness ==
    /\ hstep.op = "onclose"
    /\ Len(logStore.logs) = maxLogs
    /\ Len(SelectSeq(arrivals, LAMBDA a : ~a.paused /\ ~a.cleared)) > maxLogs
    /\ \E i \in 1..Len(arrivals) : arrivals[i].paused
    /\ sstep.op = "LOG_MESSAGE"
====
